---------------------------- MODULE Spec2Model ----------------------------
(***************************************************************************)
(* A model of the booking back end of a portrait-studio chain: the booking *)
(* table, the request handlers of the booking controller that write it     *)
(* (create, update, delete, allocate-studio-number, consent-signature),    *)
(* the listing of bookings, the naming of a location with its code, and   *)
(* the deletion of a location.  Spec runs the requests one after the       *)
(* other; SpecConc runs two allocate requests one store call per step, so  *)
(* that they interleave between their calls; the other specifications run  *)
(* one handler, or a few, over inputs chosen for it.                       *)
(***************************************************************************)
EXTENDS Integers, Sequences, FiniteSets, TLC

(***************************************************************************)
(* Bounds of the model.                                                    *)
(***************************************************************************)
\* Booking ids handed out by the store (ids are never reused).
MaxBookings == 3
\* Signature files written by the consent handler (names are never reused).
MaxFiles == 1

(***************************************************************************)
(* Values.                                                                 *)
(***************************************************************************)
\* null, for a string column (locationId)
NULL == "null"
\* null, for an integer column (studioNumber, and signaturePath, whose file names
\* the model numbers from 1)
NoNumber == 0
\* JavaScript's NaN: undefined + 1
NaN == -1
BookingIds == 1 .. MaxBookings
LocationIds == {"locA", "locB"}
FileNames == 1 .. MaxFiles
Procs == {"p1", "p2"}

\* The callers the authorization gate lets through: {id, role} of req.user.
Users ==
  { [id |-> "u1", role |-> "SALES_PERSON"],
    [id |-> "u2", role |-> "SALES_PERSON"],
    [id |-> "u3", role |-> "ADMIN"] }

\* The status values a request body may carry (a subset of the enum), and
\* "undefined" for a body without the field.
UNDEFINED == "undefined"
StatusInputs == {UNDEFINED, "TBC", "cancelled"}

\* The dates and times a body may carry: strings the route validators accept
\* (YYYY-MM-DD, HH:MM).
Dates == {"2024-01-01", "2024-01-02"}
Times == {"08:00", "09:00"}

\* A phone number is a string, modelled as the sequence of its characters.
\* NoPhone is the empty string, and also a body without the field: both are
\* falsy, and both fail notEmpty().
NoPhone == << >>
DigitChars == {"0", "1", "2", "3", "4", "5", "6", "7", "8", "9"}
\* The phone number of the bodies that are not about phone numbers.
Phone == << "0", "7", "1", "2", "3", "4", "5", "6", "7", "8", "9" >>

\* The answer of an allocate request: the booking id of the request and the
\* HTTP status code; NoResponse when the latest step answered none.
NoResponse == [id |-> 0, code |-> 0]
Response(id, code) == [id |-> id, code |-> code]

\* The locals of an allocate request with none in flight.
\* id: the booking; locationId: existingBooking.locationId; list: the listing
\* bookingsWithStudioNumbers; next: nextStudioNumber; collision: whether
\* existingStudioNumber is a row.
NoRequest ==
  [id |-> 0, locationId |-> NULL, list |-> << >>, next |-> NoNumber,
   collision |-> FALSE]

\* The query of a list request; page and limit are what parseInt makes of
\* the parameters: NaN for one that is left out or is no number.
Query(loc, status, salesPerson, includeAll, hasCollection, page, limit) ==
  [ locationId |-> loc, status |-> status, salesPersonId |-> salesPerson,
    includeAllSalesPersons |-> includeAll, hasCollectionDate |-> hasCollection,
    page |-> page, limit |-> limit ]
NoQuery == Query(UNDEFINED, UNDEFINED, UNDEFINED, UNDEFINED, UNDEFINED, NaN, NaN)
NoUser == [id |-> NULL, role |-> NULL]

\* The keys of the summary of a list response, and a summary of no rows.
SummaryKeys ==
  {"CONFIRMED", "BOOKED", "TBC", "CANCELLED", "NO_ANSWER", "WLMK", "VIDEO_CALL"}
NoSummary == [st \in SummaryKeys |-> 0]

\* The locals of a list request with none in flight: totalCount, the status
\* counts, and paginatedIds.
NoGet ==
  [ pc |-> "idle", user |-> NoUser, query |-> NoQuery, totalCount |-> 0,
    summary |-> NoSummary, ids |-> << >> ]

\* The answer to a list request, with the caller and the query it answers;
\* bookings is a sequence of [id, row].
ListResponse(user, query, rows, total, page, limit, totalPages, summary) ==
  [ user |-> user, query |-> query, bookings |-> rows, total |-> total,
    page |-> page, limit |-> limit, totalPages |-> totalPages,
    summary |-> summary ]
NoListing == ListResponse(NoUser, NoQuery, << >>, 0, 0, 0, 0, NoSummary)

\* The null generateLocationCode returns for a name without a word: a code
\* is a string, modelled as the sequence of its characters, and no name gives
\* the empty string.
NoCode == << >>
\* No location row written yet.
NoLocationRow == [name |-> << >>, code |-> NoCode]

VARIABLES
  bookings,    \* the booking table: a function from the ids of its rows
  nextId,      \* the next id the store hands out
  locations,   \* the ids of the rows of the location table
  files,       \* the signature files in the content store
  nextFile,    \* the next file name saveBase64Image generates
  pc,          \* per allocate request: the store call it issues next
  req,         \* per allocate request: its locals
  out,         \* the answer of the latest step, if it answered an allocate request
  get,         \* the list request in flight: the store call it issues next, its locals
  listing,     \* the answer to the latest list request
  coded        \* the name and the code of the location row written last

listVars == << get, listing >>
vars ==
  << bookings, nextId, locations, coded, files, nextFile, pc, req, out, listVars >>

Init ==
  /\ bookings = << >>
  /\ nextId = 1
  /\ locations = LocationIds
  /\ files = {}
  /\ nextFile = 1
  /\ pc = [p \in Procs |-> "idle"]
  /\ req = [p \in Procs |-> NoRequest]
  /\ out = NoResponse
  /\ get = NoGet
  /\ listing = NoListing
  /\ coded = NoLocationRow


(***************************************************************************)
(* The persistent store.                                                   *)
(***************************************************************************)
\* The rows of the booking table.
Present == DOMAIN bookings

\* A store without the constraint.
NoUniqueConstraint(id, row) == FALSE

\* The store's unique constraint on (locationId, studioNumber): writing `row`
\* as row `id` is refused when another row holds the same non-null pair.
UniqueViolation(id, row) ==
  /\ row.locationId # NULL
  /\ row.studioNumber # NoNumber
  /\ \E other \in Present \ {id} :
       /\ bookings[other].locationId = row.locationId
       /\ bookings[other].studioNumber = row.studioNumber

\* String.prototype.toUpperCase on the status values a body may carry.
ToUpperCase(s) ==
  CASE s = "cancelled" -> "CANCELLED"
    [] s = "tbc" -> "TBC"
    [] OTHER -> s

\* The status enum, as the route validators and createBooking list it.
StatusEnum == {"BOOKED", "CONFIRMED", "TBC", "CANCELLED", "NO_ANSWER", "WLMK"}

\* express-validator: body('status').optional().isIn([...]) and
\* body('locationId').optional().isUUID(); every id of LocationIds is a UUID.
ValidBody(body) ==
  /\ body.status = UNDEFINED \/ body.status \in StatusEnum
  /\ body.locationId = UNDEFINED \/ body.locationId \in LocationIds

\* ADMIN, CUSTOMER_SERVICE, STUDIO and SALES may change any booking; anyone
\* else only the bookings they created.
MayChange(user, row) ==
  \/ user.role \in {"ADMIN", "CUSTOMER_SERVICE", "STUDIO", "SALES"}
  \/ row.salesPersonId = user.id

(***************************************************************************)
(* createBooking: body = [phoneNumber, status, locationId, sessionDate,    *)
(* sessionTime, specialRequestDate, specialRequestTime].                   *)
(***************************************************************************)
\* JavaScript's falsy, for the values a string field takes.
Falsy(v) == v \in {UNDEFINED, NULL, ""}

\* v || null
OrNull(v) == IF Falsy(v) THEN NULL ELSE v

\* Both the session date and the session time are non-empty strings.
HasRegularSession(body) == ~Falsy(body.sessionDate) /\ ~Falsy(body.sessionTime)

\* Both the special-request date and time are non-empty strings.
HasSpecialRequest(body) ==
  ~Falsy(body.specialRequestDate) /\ ~Falsy(body.specialRequestTime)

\* A replacement that leaves the string as typed.
KeepAsTyped(str) == str

\* str.replace(/\D/g, ''): the digits of the string, in their order.
ReplaceNonDigits(str) == SelectSeq(str, LAMBDA c : c \in DigitChars)

\* The length every stored phone number has.
PhoneLength == 11

\* body('phoneNumber').notEmpty().custom(...) of the create route, and the
\* same test in the handler: the digits of the number are 11.
CreatePhoneOk(body) == Len(ReplaceNonDigits(body.phoneNumber)) = PhoneLength

\* body('phoneNumber').optional().custom(...) of the update route, and the
\* same test in the handler: a number that is given has 11 digits.
UpdatePhoneOk(body) ==
  body.phoneNumber # NoPhone =>
    Len(ReplaceNonDigits(body.phoneNumber)) = PhoneLength

BookingStatus(status) ==
  IF status # UNDEFINED /\ ToUpperCase(status) \in StatusEnum
  THEN ToUpperCase(status) ELSE "BOOKED"

\* The status code createBooking answers with.
CreateCode(body) ==
  IF ~ValidBody(body) THEN 400
  ELSE IF ~CreatePhoneOk(body) THEN 400
  ELSE IF /\ BookingStatus(body.status) # "TBC"
          /\ ~HasRegularSession(body) /\ ~HasSpecialRequest(body)
  THEN 400
  ELSE 201

CreateBooking(user, body) ==
  /\ nextId <= MaxBookings
  /\ IF CreateCode(body) # 201
     THEN UNCHANGED << bookings, nextId >>
     ELSE /\ bookings' = bookings @@ (nextId :>
                [ phoneNumber |-> ReplaceNonDigits(body.phoneNumber),
                  locationId |-> OrNull(body.locationId),
                  studioNumber |-> NoNumber,
                  status |-> BookingStatus(body.status),
                  salesPersonId |-> user.id,
                  sessionDate |-> OrNull(body.sessionDate),
                  sessionTime |-> OrNull(body.sessionTime),
                  specialRequestDate |-> OrNull(body.specialRequestDate),
                  specialRequestTime |-> OrNull(body.specialRequestTime),
                  collectionDate |-> NULL,
                  collectionTime |-> NULL,
                  signaturePath |-> NoNumber,
                  consentFormSigned |-> FALSE ])
          /\ nextId' = nextId + 1
  /\ out' = NoResponse
  /\ UNCHANGED << locations, coded, files, nextFile, pc, req, listVars >>

(***************************************************************************)
(* updateBooking: body = [phoneNumber, status, locationId, sessionDate,    *)
(* sessionTime, specialRequestDate, specialRequestTime, collectionDate,    *)
(* collectionTime]; the other fields of the body change columns this model *)
(* does not hold.  The handler reads the row, checks the caller and        *)
(* writes: the step is the write.                                          *)
(***************************************************************************)
\* if (field !== undefined) updateData.field = field || null
Updated(old, field) == IF field # UNDEFINED THEN OrNull(field) ELSE old

UpdateData(row, body) ==
  [row EXCEPT
     !.phoneNumber = IF body.phoneNumber # NoPhone
                     THEN ReplaceNonDigits(body.phoneNumber) ELSE @,
     !.sessionDate = Updated(@, body.sessionDate),
     !.sessionTime = Updated(@, body.sessionTime),
     !.specialRequestDate = Updated(@, body.specialRequestDate),
     !.specialRequestTime = Updated(@, body.specialRequestTime),
     !.status = IF ~Falsy(body.status) THEN ToUpperCase(body.status) ELSE @,
     !.locationId = Updated(@, body.locationId),
     !.collectionDate = Updated(@, body.collectionDate),
     !.collectionTime = Updated(@, body.collectionTime)]

\* The status code updateBooking answers with; a write the store refuses is
\* caught and answered as an internal error.
UpdateCode(user, id, body) ==
  IF ~ValidBody(body) \/ ~UpdatePhoneOk(body) THEN 400
  ELSE IF id \notin Present THEN 404
  ELSE IF ~MayChange(user, bookings[id]) THEN 403
  ELSE IF UniqueViolation(id, UpdateData(bookings[id], body)) THEN 500
  ELSE 200

UpdateBooking(user, id, body) ==
  /\ IF UpdateCode(user, id, body) # 200
     THEN UNCHANGED bookings
     ELSE bookings' = [bookings EXCEPT ![id] = UpdateData(@, body)]
  /\ out' = NoResponse
  /\ UNCHANGED << nextId, locations, coded, files, nextFile, pc, req, listVars >>

(***************************************************************************)
(* deleteBooking                                                           *)
(***************************************************************************)
DeleteCode(user, id) ==
  IF id \notin Present THEN 404
  ELSE IF ~MayChange(user, bookings[id]) THEN 403
  ELSE 200

DeleteBooking(user, id) ==
  /\ IF DeleteCode(user, id) # 200
     THEN UNCHANGED bookings
     ELSE bookings' = [i \in Present \ {id} |-> bookings[i]]
  /\ out' = NoResponse
  /\ UNCHANGED << nextId, locations, coded, files, nextFile, pc, req, listVars >>

(***************************************************************************)
(* deleteLocation (admin only)                                             *)
(***************************************************************************)
DeleteLocationCode(user, loc) ==
  IF user.role # "ADMIN" THEN 403
  ELSE IF loc \notin locations THEN 404
  ELSE 200

DeleteLocation(user, loc) ==
  /\ IF DeleteLocationCode(user, loc) # 200
     THEN UNCHANGED locations
     ELSE locations' = locations \ {loc}
  /\ out' = NoResponse
  /\ UNCHANGED << bookings, nextId, coded, files, nextFile, pc, req, listVars >>

(***************************************************************************)
(* generateLocationCode, and the handlers that store its result with the   *)
(* name of a location (createLocation, updateLocation).                    *)
(***************************************************************************)
LowerCaseLetters ==
  << "a", "b", "c", "d", "e", "f", "g", "h", "i", "j", "k", "l", "m",
     "n", "o", "p", "q", "r", "s", "t", "u", "v", "w", "x", "y", "z" >>
UpperCaseLetters ==
  << "A", "B", "C", "D", "E", "F", "G", "H", "I", "J", "K", "L", "M",
     "N", "O", "P", "Q", "R", "S", "T", "U", "V", "W", "X", "Y", "Z" >>

\* String.prototype.toUpperCase, on a string of letters, spaces and signs.
UpperCase(str) ==
  [i \in 1 .. Len(str) |->
     IF \E k \in 1 .. 26 : LowerCaseLetters[k] = str[i]
     THEN UpperCaseLetters[CHOOSE k \in 1 .. 26 : LowerCaseLetters[k] = str[i]]
     ELSE str[i]]

\* The characters /\s/ matches, of those a name of the model holds.
WhiteSpace == {" "}

\* split(/\s+/) of a trimmed string, and filter(word => word.length > 0):
\* the runs of characters between white space; word is the run being read.
RECURSIVE SplitWords(_, _)
SplitWords(str, word) ==
  IF str = << >> THEN (IF word = << >> THEN << >> ELSE << word >>)
  ELSE IF Head(str) \in WhiteSpace
  THEN (IF word = << >> THEN << >> ELSE << word >>) \o SplitWords(Tail(str), << >>)
  ELSE SplitWords(Tail(str), Append(word, Head(str)))

\* str.substring(0, end)
Substring(str, end) == SubSeq(str, 1, IF Len(str) < end THEN Len(str) ELSE end)

\* skipWords
SkipWords ==
  { << "O", "F" >>, << "T", "H", "E" >>, << "A", "N", "D" >>,
    << "A", "T" >>, << "I", "N" >>, << "O", "N" >> }

\* The longest code.
MaxCodeLength == 3

\* words.map(word => word[0]).join('')
FirstLetters(words) == [i \in 1 .. Len(words) |-> words[i][1]]

GenerateLocationCode(locationName) ==
  IF locationName = << >> THEN NoCode
  ELSE LET words == SplitWords(UpperCase(locationName), << >>)
           code == Substring(FirstLetters(
                               SelectSeq(words, LAMBDA word : word \notin SkipWords)),
                             MaxCodeLength)
       IN IF Len(words) = 0 THEN NoCode
          ELSE IF Len(words) = 1 THEN Substring(words[1], MaxCodeLength)
          ELSE IF Len(code) = 0
          THEN Substring(FirstLetters(words), MaxCodeLength)
          ELSE code

\* name.trim()
RECURSIVE TrimStart(_)
TrimStart(str) ==
  IF str # << >> /\ Head(str) \in WhiteSpace THEN TrimStart(Tail(str)) ELSE str
RECURSIVE TrimEnd(_)
TrimEnd(str) ==
  IF str # << >> /\ str[Len(str)] \in WhiteSpace
  THEN TrimEnd(SubSeq(str, 1, Len(str) - 1)) ELSE str
Trim(str) == TrimEnd(TrimStart(str))

\* createLocation and updateLocation, for what they write of the name: the
\* trimmed name and the code generated from it.
WriteLocationName(name) ==
  /\ coded' = [name |-> Trim(name), code |-> GenerateLocationCode(Trim(name))]
  /\ out' = NoResponse
  /\ UNCHANGED << bookings, nextId, locations, files, nextFile, pc, req, listVars >>

(***************************************************************************)
(* saveConsentFormSignature: signatureOk says whether the body carries a   *)
(* non-empty string; unlinkFails and writeFails are the file system's      *)
(* answers to deleteFile and saveBase64Image.                              *)
(***************************************************************************)
\* deleteFile: unlink the file if it exists; an error is logged and swallowed.
DeleteFile(fs, path, unlinkFails) ==
  IF path \in fs /\ ~unlinkFails THEN fs \ {path} ELSE fs

\* The status code saveConsentFormSignature answers with.
ConsentCode(id, signatureOk, writeFails) ==
  IF ~signatureOk THEN 400
  ELSE IF id \notin Present THEN 404
  ELSE IF writeFails THEN 500
  ELSE 200

\* A handler that writes the record whether or not the file was written.
SignedAnyway(row, path, writeFails, updateFails) ==
  IF updateFails THEN row
  ELSE [row EXCEPT !.signaturePath = path, !.consentFormSigned = TRUE]

\* The row after the request: the update is not reached when the file write
\* throws, and writes nothing when the store refuses it.
AfterConsent(row, path, writeFails, updateFails) ==
  IF writeFails \/ updateFails THEN row
  ELSE [row EXCEPT !.signaturePath = path, !.consentFormSigned = TRUE]

\* The status code of a request with a signature on a booking that exists.
ConsentOutcome(writeFails, updateFails) ==
  IF writeFails \/ updateFails THEN 500 ELSE 200

\* The handler: deleteFile on the old signature, saveBase64Image, update;
\* updateFails is the store's answer to the update.
ConsentHandler(id, signatureOk, unlinkFails, writeFails, updateFails) ==
  /\ IF ConsentCode(id, signatureOk, writeFails) \in {400, 404}
     THEN UNCHANGED << bookings, files, nextFile >>
     ELSE LET old == bookings[id].signaturePath
              cleaned == IF old # NoNumber THEN DeleteFile(files, old, unlinkFails)
                         ELSE files
          IN /\ bookings' = [bookings EXCEPT ![id] =
                   AfterConsent(@, nextFile, writeFails, updateFails)]
             /\ IF writeFails
                THEN files' = cleaned /\ UNCHANGED nextFile
                ELSE files' = cleaned \cup {nextFile} /\ nextFile' = nextFile + 1
  /\ out' = NoResponse
  /\ UNCHANGED << nextId, locations, coded, pc, req, listVars >>

\* The handler with a store that takes the update, for at most MaxFiles files.
SaveConsentFormSignature(id, signatureOk, unlinkFails, writeFails) ==
  /\ nextFile <= MaxFiles
  /\ ConsentHandler(id, signatureOk, unlinkFails, writeFails, FALSE)

(***************************************************************************)
(* allocateStudioNumber, one store call per step.                          *)
(***************************************************************************)
\* The check left out.
NeverAllocated(row) == FALSE

\* The check that refuses a booking that already has a studio number.
AlreadyAllocated(row) == row.studioNumber # NoNumber

\* The checks with the one on the location left out.
AllocateCheckNoLocation(id) ==
  IF id \notin Present THEN 404
  ELSE IF AlreadyAllocated(bookings[id]) THEN 400
  ELSE 0

\* The checks on the booking the request names: the status code they answer
\* with, 0 when they pass.
AllocateCheck(id) ==
  IF id \notin Present THEN 404
  ELSE IF bookings[id].locationId = NULL THEN 400
  ELSE IF AlreadyAllocated(bookings[id]) THEN 400
  ELSE 0

\* The check on the location left out.
LocationAlwaysFound(loc) == TRUE

\* findUnique on the location table returns a row.
LocationFound(loc) == loc \in locations

\* findMany(..., orderBy: studioNumber asc) over the rows `ids`: their studio
\* numbers in ascending order.
RECURSIVE OrderByStudioNumber(_)
OrderByStudioNumber(ids) ==
  IF ids = {} THEN << >>
  ELSE LET first == CHOOSE i \in ids :
                      \A j \in ids : bookings[i].studioNumber <= bookings[j].studioNumber
       IN << bookings[first].studioNumber >> \o OrderByStudioNumber(ids \ {first})

\* A listing that does not look at the location.
NumbersEverywhere(loc) ==
  OrderByStudioNumber({i \in Present : bookings[i].studioNumber # NoNumber})

\* The studio numbers already allocated at a location, ascending.
BookingsWithStudioNumbers(loc) ==
  OrderByStudioNumber({i \in Present : /\ bookings[i].locationId = loc
                                       /\ bookings[i].studioNumber # NoNumber})

\* A counter in place of the scan: the number after the listing's length.
CountPlusOne(list, i, next) == Len(list) + 1

\* The loop over the listing: i is the loop index (from 0), next the value of
\* nextStudioNumber when the iteration starts.
RECURSIVE GapScan(_, _, _)
GapScan(list, i, next) ==
  IF i >= Len(list) THEN next
  ELSE IF list[i + 1] # i + 1 THEN i + 1
  ELSE GapScan(list, i + 1, i + 2)

\* The listing's length plus one, without the scan.
LengthPlusOne(list) == Len(list) + 1

\* The first gap of the listing, or the number after its last.
NextStudioNumber(list) == IF Len(list) > 0 THEN GapScan(list, 0, 1) ELSE 1

\* findFirst: another row of the location already holds the number.
ExistingStudioNumber(loc, n, id) ==
  \E other \in Present \ {id} :
    /\ bookings[other].locationId = loc
    /\ bookings[other].studioNumber = n

\* The number taken on a collision: the last of the sorted listing plus one;
\* the last element of an empty array is undefined, and undefined + 1 is NaN.
FallbackNumber(list) == IF Len(list) = 0 THEN NaN ELSE list[Len(list)] + 1

\* What the store makes of an update whose studioNumber is `n`: a NaN is
\* either refused by the client's validation or serialised as null.
WriteOutcomes(n) == IF n = NaN THEN {"invalid", "null"} ELSE {"number"}

\* The update without the status.
AllocatedNumberOnly(row, n) == [row EXCEPT !.studioNumber = n]

\* The row the final update writes.
Allocated(row, n) == [row EXCEPT !.studioNumber = n, !.status = "CONFIRMED"]

\* The catch block: the store's unique-constraint error (P2002) is a conflict,
\* any other error an internal failure.
CatchCode(error) == IF error = "P2002" THEN 409 ELSE 500

Finish(p, id, code) ==
  /\ pc' = [pc EXCEPT ![p] = "idle"]
  /\ req' = [req EXCEPT ![p] = NoRequest]
  /\ out' = Response(id, code)

\* findUnique on the booking, and the checks on it.
AllocateBegin(p, id) ==
  /\ pc[p] = "idle"
  /\ IF AllocateCheck(id) # 0
     THEN Finish(p, id, AllocateCheck(id))
     ELSE /\ pc' = [pc EXCEPT ![p] = "findLocation"]
          /\ req' = [req EXCEPT ![p] =
                [NoRequest EXCEPT !.id = id, !.locationId = bookings[id].locationId]]
          /\ out' = NoResponse
  /\ UNCHANGED << bookings, nextId, locations, coded, files, nextFile, listVars >>

\* findUnique on the location.
AllocateFindLocation(p) ==
  /\ pc[p] = "findLocation"
  /\ IF ~LocationFound(req[p].locationId)
     THEN Finish(p, req[p].id, 404)
     ELSE /\ pc' = [pc EXCEPT ![p] = "findMany"]
          /\ out' = NoResponse
          /\ UNCHANGED req
  /\ UNCHANGED << bookings, nextId, locations, coded, files, nextFile, listVars >>

\* findMany on the location's studio numbers, and the gap scan.
AllocateFindMany(p) ==
  /\ pc[p] = "findMany"
  /\ LET list == BookingsWithStudioNumbers(req[p].locationId)
     IN req' = [req EXCEPT ![p] =
                  [@ EXCEPT !.list = list, !.next = NextStudioNumber(list)]]
  /\ pc' = [pc EXCEPT ![p] = "findFirst"]
  /\ out' = NoResponse
  /\ UNCHANGED << bookings, nextId, locations, coded, files, nextFile, listVars >>

\* findFirst on the chosen number, and the fallback on a collision.
AllocateFindFirst(p) ==
  /\ pc[p] = "findFirst"
  /\ LET collision ==
           ExistingStudioNumber(req[p].locationId, req[p].next, req[p].id)
     IN req' = [req EXCEPT ![p] =
          [@ EXCEPT !.collision = collision,
                    !.next = IF collision THEN FallbackNumber(req[p].list) ELSE @]]
  /\ pc' = [pc EXCEPT ![p] = "update"]
  /\ out' = NoResponse
  /\ UNCHANGED << bookings, nextId, locations, coded, files, nextFile, listVars >>

\* The final update, and the catch block around the handler.
AllocateUpdate(p) ==
  /\ pc[p] = "update"
  /\ LET id == req[p].id
         n == req[p].next
     IN \E outcome \in WriteOutcomes(n) :
          IF id \notin Present
          THEN Finish(p, id, CatchCode("P2025")) /\ UNCHANGED bookings
          ELSE IF outcome = "invalid"
          THEN Finish(p, id, CatchCode("validation")) /\ UNCHANGED bookings
          ELSE LET row == Allocated(bookings[id],
                                    IF outcome = "null" THEN NoNumber ELSE n)
               IN IF UniqueViolation(id, row)
                  THEN Finish(p, id, CatchCode("P2002")) /\ UNCHANGED bookings
                  ELSE /\ bookings' = [bookings EXCEPT ![id] = row]
                       /\ Finish(p, id, 200)
  /\ UNCHANGED << nextId, locations, coded, files, nextFile, listVars >>

\* The handler run without interleaving: its store calls, one after the
\* other, against one state of the tables.
AllocateStudioNumber(id) ==
  /\ \A p \in Procs : pc[p] = "idle"
  /\ IF AllocateCheck(id) # 0
     THEN out' = Response(id, AllocateCheck(id)) /\ UNCHANGED bookings
     ELSE IF ~LocationFound(bookings[id].locationId)
     THEN out' = Response(id, 404) /\ UNCHANGED bookings
     ELSE LET loc == bookings[id].locationId
              list == BookingsWithStudioNumbers(loc)
              candidate == NextStudioNumber(list)
              n == IF ExistingStudioNumber(loc, candidate, id)
                   THEN FallbackNumber(list) ELSE candidate
          IN \E outcome \in WriteOutcomes(n) :
               IF outcome = "invalid"
               THEN /\ out' = Response(id, CatchCode("validation"))
                    /\ UNCHANGED bookings
               ELSE LET row == Allocated(bookings[id],
                                         IF outcome = "null" THEN NoNumber ELSE n)
                    IN IF UniqueViolation(id, row)
                       THEN /\ out' = Response(id, CatchCode("P2002"))
                            /\ UNCHANGED bookings
                       ELSE /\ bookings' = [bookings EXCEPT ![id] = row]
                            /\ out' = Response(id, 200)
  /\ UNCHANGED << nextId, locations, coded, files, nextFile, pc, req, listVars >>

(***************************************************************************)
(* getBookings.  The operators take the table t they read, so that the     *)
(* handler can be run on one state of the table or one store call per step.*)
(***************************************************************************)
\* The page size of a request that names none.
DefaultPageSize == 20

\* parseInt(x) || fallback
ParseIntOr(x, fallback) == IF x = NaN \/ x = 0 THEN fallback ELSE x

PageNumber(q) == ParseIntOr(q.page, 1)
PageSize(q) == ParseIntOr(q.limit, DefaultPageSize)

\* A skip that counts the requested page in.
SkipThroughPage(q) == PageNumber(q) * PageSize(q)

Skip(q) == (PageNumber(q) - 1) * PageSize(q)

\* A switch that does not look at the location.
IncludeAllWithoutLocation(q) == q.includeAllSalesPersons = "true"

ShouldIncludeAllSalesPersons(q) ==
  q.includeAllSalesPersons = "true" /\ ~Falsy(q.locationId)

\* A where clause that takes the sales person from the query for every role.
WhereAsRequested(user, q) ==
  [ salesPersonId |-> IF ~Falsy(q.salesPersonId) THEN q.salesPersonId ELSE UNDEFINED,
    locationId |-> IF ~Falsy(q.locationId) THEN q.locationId ELSE UNDEFINED,
    status |-> IF ~Falsy(q.status) THEN ToUpperCase(q.status) ELSE UNDEFINED,
    hasCollection |-> q.hasCollectionDate = "true" ]

\* The where clause: a field left undefined sets no condition.
Where(user, q) ==
  [ salesPersonId |->
      IF user.role = "ADMIN"
      THEN IF ~Falsy(q.salesPersonId) THEN q.salesPersonId ELSE UNDEFINED
      ELSE IF user.role = "SALES_PERSON" /\ ~ShouldIncludeAllSalesPersons(q)
      THEN user.id
      ELSE UNDEFINED,
    locationId |-> IF ~Falsy(q.locationId) THEN q.locationId ELSE UNDEFINED,
    status |-> IF ~Falsy(q.status) THEN ToUpperCase(q.status) ELSE UNDEFINED,
    hasCollection |-> q.hasCollectionDate = "true" ]

\* The store's test of a row against a where clause.
Matches(row, where) ==
  /\ where.salesPersonId = UNDEFINED \/ row.salesPersonId = where.salesPersonId
  /\ where.locationId = UNDEFINED \/ row.locationId = where.locationId
  /\ where.status = UNDEFINED \/ row.status = where.status
  /\ where.hasCollection =>
       row.collectionDate # NULL /\ row.collectionTime # NULL

\* The ids of the rows of t that match.
Matching(t, where) == {id \in DOMAIN t : Matches(t[id], where)}

\* prisma.booking.count
Count(t, where) == Cardinality(Matching(t, where))

\* The ids of a set in the order the store returns them: no orderBy is given
\* and the model takes the ids ascending.
RECURSIVE InStoreOrder(_)
InStoreOrder(ids) ==
  IF ids = {} THEN << >>
  ELSE LET first == CHOOSE i \in ids : \A j \in ids : i <= j
       IN << first >> \o InStoreOrder(ids \ {first})

\* prisma.booking.findMany({ where })
FindMany(t, where) == InStoreOrder(Matching(t, where))

\* Status counts over the whole table.
SummaryOfTable(t, where) ==
  [st \in SummaryKeys |-> Cardinality({id \in DOMAIN t : t[id].status = st})]

\* The status counts of the rows that match: the reduce over allBookings, and
\* `|| 0` for a status without rows.
Summary(t, where) ==
  [st \in SummaryKeys |->
     Cardinality({id \in Matching(t, where) : t[id].status = st})]

\* a || b
Or(a, b) == IF Falsy(a) THEN b ELSE a

\* A sort key that looks at the session slot first.
SessionFirstKey(row, q) ==
  IF q.hasCollectionDate = "true"
  THEN << row.collectionDate, row.collectionTime >>
  ELSE << Or(row.sessionDate, row.specialRequestDate),
          Or(row.sessionTime, row.specialRequestTime) >>

\* A sort key that never looks at the collection slot.
DisplayKey(row, q) ==
  << Or(row.specialRequestDate, row.sessionDate),
     Or(row.specialRequestTime, row.sessionTime) >>

\* << date, time >> the comparator reads from a row.
SortKey(row, q) ==
  IF q.hasCollectionDate = "true"
  THEN << row.collectionDate, row.collectionTime >>
  ELSE << Or(row.specialRequestDate, row.sessionDate),
          Or(row.specialRequestTime, row.sessionTime) >>

\* The strings of Dates and Times in the order of String.prototype.localeCompare.
IsoOrder == << "08:00", "09:00", "2024-01-01", "2024-01-02" >>
IsoIndex(str) == CHOOSE i \in 1 .. Len(IsoOrder) : IsoOrder[i] = str

\* a.localeCompare(b): negative, zero or positive.
LocaleCompare(a, b) == IsoIndex(a) - IsoIndex(b)

\* A comparator that moves null dates to the front.
CompareNullsFirst(a, b) ==
  IF Falsy(a[1]) /\ Falsy(b[1]) THEN 0
  ELSE IF Falsy(a[1]) THEN 0 - 1
  ELSE IF Falsy(b[1]) THEN 1
  ELSE IF a[1] # b[1] THEN LocaleCompare(a[1], b[1])
  ELSE IF Falsy(a[2]) /\ Falsy(b[2]) THEN 0
  ELSE IF Falsy(a[2]) THEN 1
  ELSE IF Falsy(b[2]) THEN 0 - 1
  ELSE LocaleCompare(a[2], b[2])

\* The comparator of the sort, on the keys << date, time >> of two rows.
Compare(a, b) ==
  IF Falsy(a[1]) /\ Falsy(b[1]) THEN 0
  ELSE IF Falsy(a[1]) THEN 1
  ELSE IF Falsy(b[1]) THEN 0 - 1
  ELSE IF a[1] # b[1] THEN LocaleCompare(a[1], b[1])
  ELSE IF Falsy(a[2]) /\ Falsy(b[2]) THEN 0
  ELSE IF Falsy(a[2]) THEN 1
  ELSE IF Falsy(b[2]) THEN 0 - 1
  ELSE LocaleCompare(a[2], b[2])

\* Array.prototype.sort is stable: an id goes behind the ids that do not
\* compare greater than it.
RECURSIVE Insert(_, _, _, _)
Insert(sorted, id, t, q) ==
  IF sorted = << >> THEN << id >>
  ELSE IF Compare(SortKey(t[Head(sorted)], q), SortKey(t[id], q)) > 0
  THEN << id >> \o sorted
  ELSE << Head(sorted) >> \o Insert(Tail(sorted), id, t, q)

\* sortedBookingIds
RECURSIVE Sort(_, _, _)
Sort(ids, t, q) ==
  IF ids = << >> THEN << >>
  ELSE Insert(Sort(SubSeq(ids, 1, Len(ids) - 1), t, q), ids[Len(ids)], t, q)

\* Array.prototype.slice(start, end): a negative index counts from the end.
Slice(list, start, end) ==
  LET n == Len(list)
      Index(i) == IF i < 0 THEN (IF n + i < 0 THEN 0 ELSE n + i)
                  ELSE IF i > n THEN n ELSE i
  IN SubSeq(list, Index(start) + 1, Index(end))

\* paginatedIds
Paginate(ids, q) == Slice(ids, Skip(q), Skip(q) + PageSize(q))

\* prisma.booking.findMany({ where: { id: { in: paginatedIds } } }): the rows
\* of t with one of the ids, as [id, row], in any order the store may return
\* them in.
PageFetches(t, ids) ==
  LET found == {ids[i] : i \in 1 .. Len(ids)} \cap DOMAIN t
      n == Cardinality(found)
  IN { [i \in 1 .. n |-> [id |-> order[i], row |-> t[order[i]]]] :
         order \in {o \in [1 .. n -> found] :
                      \A i, j \in 1 .. n : o[i] = o[j] => i = j} }

\* The rows in the order the store returned them.
AsFetched(fetched, ids) == fetched

\* The re-sort into the order of paginatedIds: bookingsMap.get(id) for each
\* id, and filter(Boolean), which drops an id without a row.
SortedBookings(fetched, ids) ==
  LET Fetched(id) == \E k \in 1 .. Len(fetched) : fetched[k].id = id
      Get(id) == fetched[CHOOSE k \in 1 .. Len(fetched) : fetched[k].id = id]
      found == SelectSeq(ids, Fetched)
  IN [i \in 1 .. Len(found) |-> Get(found[i])]

\* The rows of the user table; the model's list requests do not change it.
UserTable == {"u1", "u2", "u3", "u4"}

\* An enrichment that leaves out the bookings with a broken reference.
ResolvedOnly(rows, locs) ==
  SelectSeq([i \in 1 .. Len(rows) |->
               [ id |-> rows[i].id, row |-> rows[i].row,
                 location |-> rows[i].row.locationId,
                 salesPerson |-> rows[i].row.salesPersonId ]],
            LAMBDA b : b.location \in locs /\ b.salesPerson \in UserTable)

\* bookingsWithDetails: each booking with its location and its sales person,
\* looked up by id (the model keeps the id of what the lookup returns); a
\* lookup that finds no row gives null.
BookingsWithDetails(rows, locs) ==
  [i \in 1 .. Len(rows) |->
     [ id |-> rows[i].id, row |-> rows[i].row,
       location |->
         IF ~Falsy(rows[i].row.locationId) /\ rows[i].row.locationId \in locs
         THEN rows[i].row.locationId ELSE NULL,
       salesPerson |->
         IF ~Falsy(rows[i].row.salesPersonId)
            /\ rows[i].row.salesPersonId \in UserTable
         THEN rows[i].row.salesPersonId ELSE NULL ]]

\* Math.ceil(total / size)
Ceil(total, size) ==
  IF size > 0 THEN (total + size - 1) \div size
  ELSE 0 - (total \div (0 - size))

\* The handler run without interleaving: its store calls, one after the
\* other, against one state of the table.
GetBookings(user, q) ==
  /\ get.pc = "idle"
  /\ LET where == Where(user, q)
         total == Count(bookings, where)
         ids == Paginate(Sort(FindMany(bookings, where), bookings, q), q)
     IN \E fetched \in PageFetches(bookings, ids) :
          listing' = ListResponse(user, q,
                       BookingsWithDetails(SortedBookings(fetched, ids), locations),
                       total, PageNumber(q), PageSize(q),
                       Ceil(total, PageSize(q)), Summary(bookings, where))
  /\ UNCHANGED << bookings, nextId, locations, coded, files, nextFile, pc, req, out, get >>

\* The handler one store call per step: count, the findMany of the summary,
\* the findMany of the sort, the findMany of the page.
GetCount(user, q) ==
  /\ get.pc = "idle"
  /\ get' = [NoGet EXCEPT !.pc = "summary", !.user = user, !.query = q,
                          !.totalCount = Count(bookings, Where(user, q))]
  /\ UNCHANGED << bookings, nextId, locations, coded, files, nextFile, pc, req, out, listing >>

GetSummary ==
  /\ get.pc = "summary"
  /\ get' = [get EXCEPT !.pc = "sort",
                        !.summary = Summary(bookings, Where(get.user, get.query))]
  /\ UNCHANGED << bookings, nextId, locations, coded, files, nextFile, pc, req, out, listing >>

GetSort ==
  /\ get.pc = "sort"
  /\ get' = [get EXCEPT !.pc = "page",
               !.ids = Paginate(Sort(FindMany(bookings, Where(get.user, get.query)),
                                     bookings, get.query), get.query)]
  /\ UNCHANGED << bookings, nextId, locations, coded, files, nextFile, pc, req, out, listing >>

GetPage ==
  /\ get.pc = "page"
  /\ \E fetched \in PageFetches(bookings, get.ids) :
       listing' = ListResponse(get.user, get.query,
                    BookingsWithDetails(SortedBookings(fetched, get.ids), locations),
                    get.totalCount, PageNumber(get.query), PageSize(get.query),
                    Ceil(get.totalCount, PageSize(get.query)), get.summary)
  /\ get' = NoGet
  /\ UNCHANGED << bookings, nextId, locations, coded, files, nextFile, pc, req, out >>

(***************************************************************************)
(* The requests the model issues.                                          *)
(***************************************************************************)
\* Bookings are created by one sales person; the others are the callers who
\* did not create the booking they ask to change.
Creators == {u \in Users : u.id = "u1"}
\* The body of a create request.
CreateBody(status, loc, session, special) ==
  [ phoneNumber |-> Phone, status |-> status, locationId |-> loc,
    sessionDate |-> session[1], sessionTime |-> session[2],
    specialRequestDate |-> special[1], specialRequestTime |-> special[2] ]
\* A slot left out of a body, and the slot the model's bodies carry.
NoSlot == << UNDEFINED, UNDEFINED >>
Slot == << "2024-01-01", "09:00" >>
\* A create body names a location or none, and carries: no status and a
\* session slot, no status and no slot, status TBC and a session slot, or a
\* status the validator refuses.
CreateBodies ==
  { CreateBody(b[1], loc, b[2], b[3]) :
      b \in { << UNDEFINED, Slot, NoSlot >>, << UNDEFINED, NoSlot, NoSlot >>,
               << "TBC", Slot, NoSlot >>, << "cancelled", Slot, NoSlot >> },
      loc \in LocationIds \cup {UNDEFINED} }
\* The body of an update request that changes the status, the location and
\* the collection slot, or leaves them (undefined).
UpdateBody(status, loc, collection) ==
  [ phoneNumber |-> NoPhone, status |-> status, locationId |-> loc,
    sessionDate |-> UNDEFINED, sessionTime |-> UNDEFINED,
    specialRequestDate |-> UNDEFINED, specialRequestTime |-> UNDEFINED,
    collectionDate |-> collection[1], collectionTime |-> collection[2] ]
\* An update body changes the status, or the location, or carries a status the
\* validator refuses.
UpdateBodies ==
  { UpdateBody(st, UNDEFINED, NoSlot) : st \in StatusInputs }
    \cup { UpdateBody(UNDEFINED, loc, NoSlot) : loc \in LocationIds }
\* The answers of the file system to a consent request with a signature:
\* << unlinkFails, writeFails >>.
FileAnswers == BOOLEAN \X BOOLEAN
\* The locations are interchangeable: the model deletes one of them.
DeletedLocations == {"locB"}

\* Requests run one after the other, each to its end.
Next ==
  \/ \E u \in Creators, body \in CreateBodies : CreateBooking(u, body)
  \/ \E u \in Users, id \in BookingIds, body \in UpdateBodies :
       UpdateBooking(u, id, body)
  \/ \E u \in Users, id \in BookingIds : DeleteBooking(u, id)
  \/ \E u \in Users, loc \in DeletedLocations : DeleteLocation(u, loc)
  \/ \E id \in BookingIds, fs \in FileAnswers :
       SaveConsentFormSignature(id, TRUE, fs[1], fs[2])
  \/ \E id \in BookingIds : SaveConsentFormSignature(id, FALSE, FALSE, FALSE)
  \/ \E id \in BookingIds : AllocateStudioNumber(id)

Spec == Init /\ [][Next]_vars

\* Two allocate requests, their store calls interleaved with each other and
\* with the creation and the deletion of bookings.
ConcCreateBodies ==
  {b \in CreateBodies : b.status # "TBC" /\ b.locationId # UNDEFINED}
ConcUsers == {u \in Users : u.role = "ADMIN"}

NextConc ==
  \/ \E u \in Creators, body \in ConcCreateBodies : CreateBooking(u, body)
  \/ \E u \in ConcUsers, id \in BookingIds : DeleteBooking(u, id)
  \/ \E p \in Procs, id \in BookingIds : AllocateBegin(p, id)
  \/ \E p \in Procs : AllocateFindLocation(p)
  \/ \E p \in Procs : AllocateFindMany(p)
  \/ \E p \in Procs : AllocateFindFirst(p)
  \/ \E p \in Procs : AllocateUpdate(p)

SpecConc == Init /\ [][NextConc]_vars

\* Create, update and allocate requests, one after the other, on bookings of
\* one location: the create bodies carry a status left out or TBC, and no
\* slot, a session slot, a session date without its time, or a
\* special-request slot; the update bodies set the status or the session slot.
SlotCreateBodies ==
  { CreateBody(st, "locA", slots[1], slots[2]) :
      st \in {UNDEFINED, "TBC"},
      slots \in { << NoSlot, NoSlot >>, << Slot, NoSlot >>, << NoSlot, Slot >>,
                  << << "2024-01-01", UNDEFINED >>, NoSlot >> } }
SlotUpdateBodies ==
  { UpdateBody("BOOKED", UNDEFINED, NoSlot),
    [UpdateBody(UNDEFINED, UNDEFINED, NoSlot)
       EXCEPT !.sessionDate = "2024-01-02", !.sessionTime = "08:00"] }

NextSlots ==
  \/ \E u \in Creators, body \in SlotCreateBodies : CreateBooking(u, body)
  \/ \E u \in Creators, id \in BookingIds, body \in SlotUpdateBodies :
       UpdateBooking(u, id, body)
  \/ \E id \in BookingIds : AllocateStudioNumber(id)

SpecSlots == Init /\ [][NextSlots]_vars

\* Consent-signature requests on bookings of one kind, each signed more than
\* once: the file system answers deleteFile and saveBase64Image, the store
\* answers the update, and at most MaxSignatures files are written.
MaxSignatures == 3

NextConsent ==
  \/ \E u \in Creators :
       CreateBooking(u, CreateBody(UNDEFINED, "locA", Slot, NoSlot))
  \/ \E id \in BookingIds, signatureOk \in BOOLEAN,
        a \in BOOLEAN \X BOOLEAN \X BOOLEAN :
       /\ nextFile <= MaxSignatures
       /\ ConsentHandler(id, signatureOk, a[1], a[2], a[3])

SpecConsent == Init /\ [][NextConsent]_vars

\* Location names: the four names of the examples, names of one to MaxWords
\* words of a vocabulary that holds words to skip, short words and a word in
\* lower case, and names with white space around and between the words.
MaxWords == 3
Vocabulary ==
  { << "M", "a", "l", "l" >>, << "o", "f" >>,
    << "M", "u", "l", "t", "a", "n" >>,
    << "t", "h", "e" >>, << "a", "b" >>, << "C", "i", "t", "y" >> }
RECURSIVE JoinWords(_)
JoinWords(words) ==
  IF words = << >> THEN << >>
  ELSE IF Len(words) = 1 THEN words[1]
  ELSE words[1] \o << " " >> \o JoinWords(Tail(words))
MallOfMultan ==
  JoinWords(<< << "M", "a", "l", "l" >>, << "o", "f" >>,
               << "M", "u", "l", "t", "a", "n" >> >>)
GardenTownCanttMultan ==
  JoinWords(<< << "G", "a", "r", "d", "e", "n" >>, << "T", "o", "w", "n" >>,
               << "C", "a", "n", "t", "t" >>,
               << "M", "u", "l", "t", "a", "n" >> >>)
CityCenter ==
  JoinWords(<< << "C", "i", "t", "y" >>, << "C", "e", "n", "t", "e", "r" >> >>)
ShoppingMall ==
  JoinWords(<< << "S", "h", "o", "p", "p", "i", "n", "g" >>,
               << "M", "a", "l", "l" >> >>)
LocationNames ==
  { JoinWords(words) :
      words \in UNION { [1 .. n -> Vocabulary] : n \in 1 .. MaxWords } }
    \cup { GardenTownCanttMultan, CityCenter, ShoppingMall,
           << " " >> \o CityCenter \o << " ", " " >>,
           << "C", "i", "t", "y" >> \o << " ", " " >> \o << "M", "a", "l", "l" >> }

NextCode == \E name \in LocationNames : WriteLocationName(name)

SpecCode == Init /\ [][NextCode]_vars

\* Create and update requests whose bodies differ in the phone number: the
\* example "0712-345 6789", numbers of 11 digits typed with and without
\* separators, numbers of 10 and of 12 digits, and strings without digits.
PhoneInputs ==
  { << "0", "7", "1", "2", "-", "3", "4", "5", " ", "6", "7", "8", "9" >>,
    << "0", "7", "1", "2", "3", "4", "5", "6", "7", "8", "9" >>,
    << "(", "0", "3", "0", "0", ")", " ", "1", "2", "3", "4", "5", "6", "7" >>,
    << "0", "4", "2", ".", "3", "5", "7", "6", "1", "9", "9", "9", "x" >>,
    << "0", "7", "1", "2", "3", "4", "5", "6", "7", "8" >>,
    << "+", "9", "2", "3", "0", "0", "1", "2", "3", "4", "5", "6", "7" >>,
    << "n", "/", "a" >>,
    << " " >>,
    NoPhone }
PhoneCreateBodies ==
  { [CreateBody(st, "locA", Slot, NoSlot) EXCEPT !.phoneNumber = phone] :
      st \in {UNDEFINED, "TBC"}, phone \in PhoneInputs }
PhoneUpdateBodies ==
  { [UpdateBody(st, UNDEFINED, NoSlot) EXCEPT !.phoneNumber = phone] :
      st \in {UNDEFINED, "CONFIRMED"}, phone \in PhoneInputs }

NextPhone ==
  \/ \E u \in Creators, body \in PhoneCreateBodies : CreateBooking(u, body)
  \/ \E u \in Creators, id \in BookingIds, body \in PhoneUpdateBodies :
       UpdateBooking(u, id, body)

SpecPhone == Init /\ [][NextPhone]_vars

\* A row of the booking table without studio number and signature.
Row(loc, status, salesPerson, session, special, collection) ==
  [ phoneNumber |-> Phone, locationId |-> loc, studioNumber |-> NoNumber,
    status |-> status, salesPersonId |-> salesPerson,
    sessionDate |-> session[1], sessionTime |-> session[2],
    specialRequestDate |-> special[1], specialRequestTime |-> special[2],
    collectionDate |-> collection[1], collectionTime |-> collection[2],
    signaturePath |-> NoNumber, consentFormSigned |-> FALSE ]
\* A slot of a row that holds none.
NullSlot == << NULL, NULL >>

\* The state of a full table, with no request in flight.
InitTable(tables) ==
  /\ bookings \in tables
  /\ nextId = MaxBookings + 1
  /\ locations = LocationIds
  /\ files = {}
  /\ nextFile = 1
  /\ pc = [p \in Procs |-> "idle"]
  /\ req = [p \in Procs |-> NoRequest]
  /\ out = NoResponse
  /\ get = NoGet
  /\ listing = NoListing
  /\ coded = NoLocationRow

\* One list request on a table that no request writes: the rows differ in
\* location, status and creator, and a later booking has an earlier session
\* slot, so that the sort reverses the order of the store; the callers are a
\* sales person, an admin and a customer-service user; the queries carry
\* every combination of the filters below, a page that is left out or 1 to 3
\* and a limit that is left out, 1 or 2.
ListSlots ==
  << << "2024-01-02", "08:00" >>, << "2024-01-01", "09:00" >>,
     << "2024-01-01", "08:00" >> >>
ListRows(id) ==
  { Row(loc, st, sp, ListSlots[((id - 1) % Len(ListSlots)) + 1], NullSlot, NullSlot) :
      loc \in LocationIds, st \in {"BOOKED", "TBC"}, sp \in {"u1", "u2"} }
ListTables ==
  {t \in [BookingIds -> UNION {ListRows(id) : id \in BookingIds}] :
     \A id \in BookingIds : t[id] \in ListRows(id)}
ListCallers ==
  {u \in Users : u.id \in {"u1", "u3"}}
    \cup {[id |-> "u4", role |-> "CUSTOMER_SERVICE"]}
ListQueries ==
  { Query(loc, st, sp, all, UNDEFINED, page, limit) :
      loc \in {UNDEFINED, "locA"}, st \in {UNDEFINED, "tbc"},
      sp \in {UNDEFINED, "u2"}, all \in {UNDEFINED, "true"},
      page \in {NaN} \cup (1 .. 3), limit \in {NaN} \cup (1 .. 2) }

InitList == InitTable(ListTables)
NextList ==
  listing = NoListing /\ \E u \in ListCallers, q \in ListQueries : GetBookings(u, q)
SpecList == InitList /\ [][NextList]_vars

\* One list request on a table that no request writes: the rows differ in
\* their session, special-request and collection slots; the store returns
\* the rows by id, and the tables hold every arrangement of rows over the ids.
SortRows ==
  { Row("locA", "TBC", "u1", session, special, collection) :
      session \in { NullSlot, << "2024-01-01", "09:00" >>,
                    << "2024-01-02", "08:00" >> },
      special \in { NullSlot, << "2024-01-01", "08:00" >>,
                    << "2024-01-02", "09:00" >>, << "2024-01-01", NULL >> },
      collection \in { NullSlot, << "2024-01-01", NULL >>,
                       << "2024-01-01", "09:00" >>, << "2024-01-02", "08:00" >> } }
SortCallers == {u \in Users : u.role = "ADMIN"}
SortQueries ==
  { Query(UNDEFINED, UNDEFINED, UNDEFINED, UNDEFINED, has, NaN, NaN) :
      has \in {UNDEFINED, "true"} }

\* List requests on tables whose bookings name locA, locB or no location and
\* were created by u1 or by a sales person who has been deleted since; the
\* locations are deleted before the list request.
DeletedUser == "u9"
EnrichRows ==
  { Row(loc, "BOOKED", sp, Slot, NullSlot, NullSlot) :
      loc \in LocationIds \cup {NULL}, sp \in {"u1", DeletedUser} }
InitEnrich == InitTable([BookingIds -> EnrichRows])
NextEnrich ==
  \/ listing = NoListing /\
       \E u \in SortCallers, loc \in LocationIds : DeleteLocation(u, loc)
  \/ listing = NoListing /\
       \E u \in ListCallers, loc \in {UNDEFINED, "locB"} :
         GetBookings(u, Query(loc, UNDEFINED, UNDEFINED, UNDEFINED, UNDEFINED, NaN, NaN))
SpecEnrich == InitEnrich /\ [][NextEnrich]_vars

\* List requests of an administrator that differ in page and limit: the page
\* is left out or no number, 0, negative, or 1 to 3.
NextPage ==
  /\ listing = NoListing
  /\ \E u \in SortCallers, page \in {NaN, 0, -2} \cup (1 .. 3), limit \in {NaN} \cup (1 .. 2) :
       GetBookings(u, Query(UNDEFINED, UNDEFINED, UNDEFINED, UNDEFINED, UNDEFINED, page, limit))
SpecPage == InitList /\ [][NextPage]_vars

InitSort == InitTable([BookingIds -> SortRows])
NextSort ==
  listing = NoListing /\ \E u \in SortCallers, q \in SortQueries : GetBookings(u, q)
SpecSort == InitSort /\ [][NextSort]_vars

\* One list request by a sales person, its store calls interleaved with the
\* creation of bookings by two sales persons and with an admin's updates of
\* the location and deletions, which go on after the answer.
ConcListCreators == {u \in Users : u.role = "SALES_PERSON"}
ConcListCreateBodies == {CreateBody(UNDEFINED, "locA", Slot, NoSlot)}
ConcListUpdateBodies == {UpdateBody(UNDEFINED, "locB", NoSlot)}
ConcListCallers == {u \in Users : u.id = "u1"}
ConcListQueries ==
  { Query(loc, UNDEFINED, sp, all, UNDEFINED, pl[1], pl[2]) :
      loc \in {UNDEFINED, "locA"}, sp \in {UNDEFINED, "u2"},
      all \in {UNDEFINED, "true"}, pl \in {<< NaN, NaN >>, << 2, 1 >>} }

NextListConc ==
  \/ \E u \in ConcListCreators, body \in ConcListCreateBodies : CreateBooking(u, body)
  \/ \E u \in ConcUsers, id \in BookingIds, body \in ConcListUpdateBodies :
       UpdateBooking(u, id, body)
  \/ \E u \in ConcUsers, id \in BookingIds : DeleteBooking(u, id)
  \/ listing = NoListing
       /\ \E u \in ConcListCallers, q \in ConcListQueries : GetCount(u, q)
  \/ GetSummary
  \/ GetSort
  \/ GetPage

SpecListConc == Init /\ [][NextListConc]_vars

\* Create, update and allocate requests, one after the other, with no booking
\* deleted and no update that names a location: the bookings are created at
\* locA, at locB or without location, and the updates change the status.
NextKept ==
  \/ \E u \in Creators, loc \in LocationIds \cup {UNDEFINED} :
       CreateBooking(u, CreateBody(UNDEFINED, loc, Slot, NoSlot))
  \/ \E u \in Creators, id \in BookingIds, st \in {"TBC", "CANCELLED"} :
       UpdateBooking(u, id, UpdateBody(st, UNDEFINED, NoSlot))
  \/ \E id \in BookingIds : AllocateStudioNumber(id)

SpecKept == Init /\ [][NextKept]_vars

\* A list request with a status filter, one store call per step, while
\* update requests change the status of the bookings it reads.
RaceRows == { Row("locA", st, "u1", Slot, NullSlot, NullSlot) : st \in {"BOOKED", "TBC"} }
InitRace == InitTable([BookingIds -> RaceRows])
NextRace ==
  \/ \E u \in ConcUsers, id \in BookingIds, st \in {"BOOKED", "TBC"} :
       UpdateBooking(u, id, UpdateBody(st, UNDEFINED, NoSlot))
  \/ listing = NoListing
       /\ \E u \in ConcUsers, st \in {UNDEFINED, "tbc"} :
            GetCount(u, Query(UNDEFINED, st, UNDEFINED, UNDEFINED, UNDEFINED, NaN, NaN))
  \/ GetSummary
  \/ GetSort
  \/ GetPage

SpecRace == InitRace /\ [][NextRace]_vars

(***************************************************************************)
(* Properties.                                                             *)
(***************************************************************************)
\* The studio numbers held at a location.
UsedAt(loc) ==
  {bookings[i].studioNumber : i \in {j \in Present : bookings[j].locationId = loc}}
    \ {NoNumber}

\* The smallest positive integer outside a finite set of integers.
SmallestOutside(S) ==
  CHOOSE n \in 1 .. Cardinality(S) + 1 :
    n \notin S /\ \A m \in 1 .. n - 1 : m \in S

\* The elements of a sequence.
Range(list) == {list[i] : i \in 1 .. Len(list)}

\* Booking id is given a studio number by this step.
Allocates(id) ==
  /\ id \in Present /\ id \in DOMAIN bookings'
  /\ bookings[id].studioNumber = NoNumber
  /\ bookings'[id].studioNumber # NoNumber

\* C1: with requests run one after the other, no two bookings of one location
\* hold the same studio number.
C1_UniquePerLocation ==
  \A i, j \in Present :
    ( /\ i # j
      /\ bookings[i].locationId = bookings[j].locationId
      /\ bookings[i].studioNumber # NoNumber )
    => bookings[i].studioNumber # bookings[j].studioNumber

\* Two numbered bookings share a location, and a booking of the other location
\* holds the number of one of them: an update that moves it would collide.
C1_Witness ==
  \E i, j, k \in Present :
    /\ i # j
    /\ bookings[i].locationId = bookings[j].locationId
    /\ bookings[i].studioNumber # NoNumber
    /\ bookings[j].studioNumber # NoNumber
    /\ bookings[k].locationId \notin {NULL, bookings[i].locationId}
    /\ bookings[k].studioNumber = bookings[i].studioNumber

\* C2: with requests run one after the other, an allocation gives the booking
\* the smallest positive integer no booking of its location holds: 3 for
\* {1,2,4}, 4 for {1,2,3}, 1 for the empty set.
C2_SmallestUnused ==
  /\ NextStudioNumber(<< 1, 2, 4 >>) = 3
  /\ NextStudioNumber(<< 1, 2, 3 >>) = 4
  /\ NextStudioNumber(<< >>) = 1
  /\ [][\A id \in BookingIds :
          Allocates(id) =>
            bookings'[id].studioNumber = SmallestOutside(UsedAt(bookings[id].locationId))]_vars

\* The latest request gave booking 3 the number 1 below the number 2 of
\* booking 2 at its location, after booking 1 was deleted.
C2_Witness ==
  /\ Present = {2, 3}
  /\ out = Response(3, 200)
  /\ bookings[3].locationId = bookings[2].locationId
  /\ bookings[3].studioNumber = 1
  /\ bookings[2].studioNumber = 2

\* C3: with requests run one after the other, a studio number, once set,
\* stays the same for as long as the booking exists.
C3_Immutable ==
  [][\A id \in BookingIds :
       ( /\ id \in Present /\ id \in DOMAIN bookings'
         /\ bookings[id].studioNumber # NoNumber )
       => bookings'[id].studioNumber = bookings[id].studioNumber]_vars

\* A numbered booking that an update has since given another status and
\* another location, that a consent request has signed, and that the latest
\* allocate request has refused.
C3_Witness ==
  \E id \in Present :
    /\ bookings[id].studioNumber # NoNumber
    /\ bookings[id].status = "TBC"
    /\ bookings[id].consentFormSigned
    /\ out = Response(id, 400)

\* Request p issues its final update in this step.
IssuesUpdate(p) == pc[p] = "update" /\ pc'[p] = "idle"

\* The store refuses the final update of request p: another row of the
\* booking's location holds the number.
UpdateRefused(p) ==
  /\ req[p].id \in Present
  /\ req[p].next # NaN
  /\ UniqueViolation(req[p].id, Allocated(bookings[req[p].id], req[p].next))

\* C4: of two interleaved allocate requests on one booking at most one
\* succeeds: a request that succeeds found the booking without a number when
\* it wrote.
C4_AssignedOnce ==
  [][\A p \in Procs :
       (IssuesUpdate(p) /\ out' = Response(req[p].id, 200))
       => ( /\ req[p].id \in Present
            /\ bookings[req[p].id].studioNumber = NoNumber )]_vars

\* C5: a request that found no collision writes the first gap of its own
\* earlier listing, whatever the table holds when it writes: two requests at
\* one location can so both come to write the same number.
C5_StaleCandidate ==
  \A p \in Procs :
    (pc[p] = "update" /\ ~req[p].collision)
    => req[p].next = SmallestOutside(Range(req[p].list))

\* Two requests for two unallocated bookings of one location have both found
\* no collision and are both about to write the same number.
C5_Race ==
  /\ pc["p1"] = "update" /\ pc["p2"] = "update"
  /\ req["p1"].id # req["p2"].id
  /\ ~req["p1"].collision /\ ~req["p2"].collision
  /\ req["p1"].next = req["p2"].next
  /\ req["p1"].list = req["p2"].list
  /\ \A p \in Procs :
       /\ req[p].id \in Present
       /\ bookings[req[p].id].studioNumber = NoNumber
       /\ bookings[req[p].id].locationId = req["p1"].locationId

\* C6: a final update the store refuses for the unique constraint is answered
\* 409, changes no booking (the status of the request's booking included),
\* and leaves the booking of the request without a studio number.
C6_ConflictLeavesBooking ==
  [][\A p \in Procs :
       (IssuesUpdate(p) /\ UpdateRefused(p))
       => ( /\ out' = Response(req[p].id, 409)
            /\ bookings' = bookings
            /\ bookings'[req[p].id].studioNumber = NoNumber )]_vars

\* C7: after a collision the number to write is the last of the listing plus
\* one, a positive integer, whatever the listing was.
C7_FallbackPositive ==
  \A p \in Procs :
    (pc[p] = "update" /\ req[p].collision)
    => ( /\ req[p].next >= 1
         /\ Len(req[p].list) > 0 => req[p].next = req[p].list[Len(req[p].list)] + 1 )

\* C8: an allocate request on a booking without a location, or with a studio
\* number, is answered 400 and changes nothing.
C8_InvalidState ==
  [][\A id \in BookingIds :
       ( /\ id \in Present
         /\ bookings[id].locationId = NULL \/ bookings[id].studioNumber # NoNumber
         /\ AllocateStudioNumber(id) )
       => ( /\ out' = Response(id, 400)
            /\ UNCHANGED << bookings, locations, files >> )]_vars

\* The latest allocate request named a booking that has a studio number and
\* was answered 400.
C8_Witness ==
  /\ out.code = 400
  /\ out.id \in Present
  /\ bookings[out.id].studioNumber # NoNumber

\* C9 as stated: an allocate request is answered 404 and changes nothing when
\* no booking has the id, and when no location has the booking's locationId,
\* whether or not the booking has a studio number.
C9_NotFoundAnyBooking ==
  [][\A id \in BookingIds :
       ( /\ \/ id \notin Present
            \/ bookings[id].locationId \notin locations \cup {NULL}
         /\ AllocateStudioNumber(id) )
       => ( /\ out' = Response(id, 404)
            /\ UNCHANGED << bookings, locations, files >> )]_vars

\* C9: an allocate request is answered 404 and changes nothing when no
\* booking has the id, and when the booking has no studio number and no
\* location has its locationId.
C9_NotFound ==
  [][\A id \in BookingIds :
       ( /\ \/ id \notin Present
            \/ /\ bookings[id].locationId \notin locations \cup {NULL}
               /\ bookings[id].studioNumber = NoNumber
         /\ AllocateStudioNumber(id) )
       => ( /\ out' = Response(id, 404)
            /\ UNCHANGED << bookings, locations, files >> )]_vars

\* The latest allocate request named a booking without a studio number whose
\* location was deleted, and was answered 404.
C9_Witness ==
  /\ out.code = 404
  /\ out.id \in Present
  /\ bookings[out.id].locationId \notin locations \cup {NULL}
  /\ bookings[out.id].studioNumber = NoNumber

\* C10: the step that gives a booking its studio number leaves it CONFIRMED.
C10_ConfirmedWithNumber ==
  [][\A id \in BookingIds :
       Allocates(id) => bookings'[id].status = "CONFIRMED"]_vars

\* The latest allocate request succeeded: its booking has a studio number and
\* is CONFIRMED.
C10_Witness ==
  /\ out.code = 200
  /\ out.id \in Present
  /\ bookings[out.id].studioNumber # NoNumber
  /\ bookings[out.id].status = "CONFIRMED"

\* A list request has been answered.
Answered == listing # NoListing

\* The rows of the answer, and their ids.
Returned == {listing.bookings[i].row : i \in 1 .. Len(listing.bookings)}
ReturnedIds == {listing.bookings[i].id : i \in 1 .. Len(listing.bookings)}

\* Every row of the answer was created by the caller.
OwnRowsOnly == \A row \in Returned : row.salesPersonId = listing.user.id

\* C11: the answer to a list request of a SALES_PERSON without
\* includeAllSalesPersons=true holds no booking of another sales person,
\* whatever the other filters and whatever requests ran between the store
\* calls of the list request.
C11_OwnRows ==
  ( /\ Answered
    /\ listing.user.role = "SALES_PERSON"
    /\ listing.query.includeAllSalesPersons # "true" )
  => OwnRowsOnly

\* A sales person asked for the bookings of another sales person, who has
\* one, and got own bookings only; a delete ran between the count and the
\* last findMany of the request, so that the total exceeds the rows.
C11_Witness ==
  /\ Answered
  /\ listing.user.id = "u1"
  /\ listing.query.salesPersonId = "u2"
  /\ listing.query.includeAllSalesPersons # "true"
  /\ listing.query.page = NaN
  /\ Len(listing.bookings) > 0
  /\ listing.total > Len(listing.bookings)
  /\ \E id \in Present : bookings[id].salesPersonId = "u2"

\* The ids of the rows a query without status filter selects at its location.
AtLocation(q) ==
  {id \in Present :
     /\ bookings[id].locationId = q.locationId
     /\ q.status = UNDEFINED \/ bookings[id].status = ToUpperCase(q.status)}

\* C12: for a SALES_PERSON caller, includeAllSalesPersons=true without a
\* locationId still answers own bookings only; with a locationId it answers
\* bookings of every sales person at that location and of no other (those
\* with the status asked for; all of them on a first page that holds them).
C12_IncludeAll ==
  ( /\ Answered
    /\ listing.user.role = "SALES_PERSON"
    /\ listing.query.includeAllSalesPersons = "true" )
  => ( /\ listing.query.locationId = UNDEFINED => OwnRowsOnly
       /\ listing.query.locationId # UNDEFINED =>
            /\ ReturnedIds \subseteq AtLocation(listing.query)
            /\ (listing.query.page \in {NaN, 1} /\ listing.query.limit = NaN)
                 => ReturnedIds = AtLocation(listing.query) )

\* A sales person asked with includeAllSalesPersons=true and a locationId and
\* got a booking of their own and a booking of another sales person.
C12_Witness ==
  /\ Answered
  /\ listing.user.role = "SALES_PERSON"
  /\ listing.query.includeAllSalesPersons = "true"
  /\ listing.query.locationId = "locA"
  /\ \E a, b \in Returned :
       a.salesPersonId = listing.user.id /\ b.salesPersonId # listing.user.id

\* C13: for a caller of role ADMIN, CUSTOMER_SERVICE, STUDIO or SALES every
\* row of the answer has the salesPersonId of the query, when it names one,
\* and the locationId of the query, when it names one.
C13_ExplicitFilters ==
  ( /\ Answered
    /\ listing.user.role \in {"ADMIN", "CUSTOMER_SERVICE", "STUDIO", "SALES"} )
  => ( /\ listing.query.salesPersonId # UNDEFINED =>
            \A row \in Returned : row.salesPersonId = listing.query.salesPersonId
       /\ listing.query.locationId # UNDEFINED =>
            \A row \in Returned : row.locationId = listing.query.locationId )

\* The ids of the entire filtered set of the answered request: the rows its
\* where clause selects, whatever its page and limit.
Filtered ==
  Matching(bookings,
           Where(listing.user, [listing.query EXCEPT !.page = NaN, !.limit = NaN]))

\* Key a is not behind key b: a null date is last; dates ascend; with equal
\* dates a null time is last and times ascend.
KeyInOrder(a, b) ==
  /\ a[1] = NULL => b[1] = NULL
  /\ (a[1] # NULL /\ b[1] # NULL) =>
       /\ LocaleCompare(a[1], b[1]) <= 0
       /\ a[1] = b[1] =>
            /\ a[2] = NULL => b[2] = NULL
            /\ (a[2] # NULL /\ b[2] # NULL) => LocaleCompare(a[2], b[2]) <= 0

\* The date and time a booking is displayed with.
EffectiveKey(row) ==
  << IF row.specialRequestDate # NULL THEN row.specialRequestDate
     ELSE row.sessionDate,
     IF row.specialRequestTime # NULL THEN row.specialRequestTime
     ELSE row.sessionTime >>

\* Key a is before key b and not tied with it.
StrictlyBefore(a, b) == KeyInOrder(a, b) /\ ~KeyInOrder(b, a)

\* C14: with page >= 1 and limit >= 1, the answer holds the rows at the
\* positions (page-1)*limit+1 to page*limit of the sorted filtered set (fewer
\* when the set ends first), each row as the table holds it, and totalPages =
\* ceil(total / limit); page 2 of 5 rows with limit 2 is rows 3 and 4 of 3
\* pages.
C14_Page ==
  /\ Paginate(<< 11, 12, 13, 14, 15 >>,
              [NoQuery EXCEPT !.page = 2, !.limit = 2]) = << 13, 14 >>
  /\ Ceil(5, 2) = 3
  /\ ( /\ Answered
       /\ listing.query.page >= 1
       /\ listing.query.limit >= 1 )
     => LET rows == listing.bookings
            n == Cardinality(Filtered)
            limit == listing.query.limit
            skip == (listing.query.page - 1) * limit
            rest == IF n > skip THEN n - skip ELSE 0
        IN /\ Len(rows) = IF rest < limit THEN rest ELSE limit
           /\ \A i \in 1 .. Len(rows) :
                /\ rows[i].id \in Filtered
                /\ rows[i].row = bookings[rows[i].id]
                /\ \A j \in 1 .. Len(rows) : rows[i].id = rows[j].id => i = j
                /\ Cardinality({id \in Filtered :
                      StrictlyBefore(EffectiveKey(bookings[id]),
                                     EffectiveKey(rows[i].row))}) <= skip + i - 1
                /\ Cardinality({id \in Filtered :
                      StrictlyBefore(EffectiveKey(rows[i].row),
                                     EffectiveKey(bookings[id]))}) <= n - (skip + i)
           /\ listing.total = n
           /\ listing.totalPages * limit >= n
           /\ (listing.totalPages - 1) * limit < n

\* Page 2 with limit 2 of three rows: the answer is the one row with the
\* latest slot, which the store holds first, and there are 2 pages.
C14_Witness ==
  /\ Answered
  /\ listing.query.page = 2 /\ listing.query.limit = 2
  /\ listing.total = 3
  /\ listing.totalPages = 2
  /\ Len(listing.bookings) = 1
  /\ listing.bookings[1].id = 1

\* C15: the summary of an answer counts, per status, the bookings of the
\* entire filtered set, and its total is the size of that set, whatever the
\* page and the limit; 7 BOOKED rows give booked = 7.
C15_Summary ==
  /\ Summary([i \in 1 .. 7 |-> Row("locA", "BOOKED", "u1", Slot, NullSlot, NullSlot)],
             Where(NoUser, NoQuery))["BOOKED"] = 7
  /\ Answered =>
       /\ \A st \in SummaryKeys :
            listing.summary[st] =
              Cardinality({id \in Filtered : bookings[id].status = st})
       /\ listing.total = Cardinality(Filtered)

\* An answer of one row, page 2 with limit 1, whose summary counts two BOOKED
\* bookings and one TBC booking, of a table that holds a booking the filter
\* leaves out.
C15_Witness ==
  /\ Answered
  /\ listing.query.page = 2 /\ listing.query.limit = 1
  /\ Len(listing.bookings) = 1
  /\ listing.summary["BOOKED"] = 2
  /\ listing.summary["TBC"] = 0
  /\ listing.total = 2
  /\ Cardinality(Present) = 3

\* The pairs << a, b >> of rows of the answer with a placed before b.
PlacedBefore ==
  UNION { { << listing.bookings[i].row, listing.bookings[j].row >> :
              j \in i + 1 .. Len(listing.bookings) } :
          i \in 1 .. Len(listing.bookings) }

\* C16: without hasCollectionDate, for a row a placed before a row b: a's
\* effective date is not null while b's is not; two non-null dates ascend;
\* with equal non-null dates, a's time is not null while b's is not and two
\* non-null times ascend.  A(2024-01-02, 09:00), B(2024-01-02, 08:00),
\* C(null) come as B, A, C.
C16_SortOrder ==
  /\ Sort(<< 1, 2, 3 >>,
          << Row("locA", "BOOKED", "u1", << "2024-01-02", "09:00" >>, NullSlot, NullSlot),
             Row("locA", "BOOKED", "u1", << "2024-01-02", "08:00" >>, NullSlot, NullSlot),
             Row("locA", "TBC", "u1", NullSlot, NullSlot, NullSlot) >>,
          NoQuery) = << 2, 1, 3 >>
  /\ (Answered /\ listing.query.hasCollectionDate # "true") =>
       \A p \in PlacedBefore : KeyInOrder(EffectiveKey(p[1]), EffectiveKey(p[2]))

\* An answer without hasCollectionDate of three rows: the first two have the
\* same date and ascending times and came from the store in the other order,
\* the third has no date.
C16_Witness ==
  /\ Answered
  /\ listing.query.hasCollectionDate # "true"
  /\ Len(listing.bookings) = 3
  /\ LET a == EffectiveKey(listing.bookings[1].row)
         b == EffectiveKey(listing.bookings[2].row)
         c == EffectiveKey(listing.bookings[3].row)
     IN /\ a[1] # NULL /\ a[1] = b[1]
        /\ a[2] = "08:00" /\ b[2] = "09:00"
        /\ c[1] = NULL
        /\ listing.bookings[1].id > listing.bookings[2].id

\* A booking has both its session slot and its special-request slot.
BothSlots(row) ==
  /\ row.sessionDate # NULL /\ row.sessionTime # NULL
  /\ row.specialRequestDate # NULL /\ row.specialRequestTime # NULL

\* The key the specification gives a booking: its special-request slot when it has
\* both slots.
ClaimedKey(row) ==
  IF BothSlots(row) THEN << row.specialRequestDate, row.specialRequestTime >>
  ELSE EffectiveKey(row)

\* The session slot of a booking.
SessionKey(row) == << row.sessionDate, row.sessionTime >>

\* C17: without hasCollectionDate, the sort key of a booking is its
\* special-request date, or its session date when that is null, with its
\* special-request time, or its session time when that is null; a booking
\* that has both slots is placed by its special-request date and time against
\* every other row of the answer.
C17_SpecialRequestFirst ==
  (Answered /\ listing.query.hasCollectionDate # "true") =>
    /\ \A id \in Present :
         SortKey(bookings[id], listing.query) = EffectiveKey(bookings[id])
    /\ \A p \in PlacedBefore :
         (BothSlots(p[1]) \/ BothSlots(p[2])) =>
           KeyInOrder(ClaimedKey(p[1]), ClaimedKey(p[2]))

\* Two bookings with both slots, placed in the order of their special-request
\* slots, which is the reverse of the order of their session slots.
C17_Witness ==
  /\ Answered
  /\ listing.query.hasCollectionDate # "true"
  /\ \E p \in PlacedBefore :
       /\ BothSlots(p[1]) /\ BothSlots(p[2])
       /\ StrictlyBefore(ClaimedKey(p[1]), ClaimedKey(p[2]))
       /\ StrictlyBefore(SessionKey(p[2]), SessionKey(p[1]))

\* The collection slot of a booking.
CollectionKey(row) == << row.collectionDate, row.collectionTime >>

\* C18: with hasCollectionDate=true, every row of the answer has a collection
\* date and a collection time, and the rows ascend by collection date, then
\* by collection time.
C18_CollectionOrder ==
  (Answered /\ listing.query.hasCollectionDate = "true") =>
    /\ \A row \in Returned : row.collectionDate # NULL /\ row.collectionTime # NULL
    /\ \A p \in PlacedBefore : KeyInOrder(CollectionKey(p[1]), CollectionKey(p[2]))

\* An answer with hasCollectionDate=true of two rows in the order of their
\* collection slots, which is the reverse of the order of the slots they are
\* displayed with, of a table with a row without collection time.
C18_Witness ==
  /\ Answered
  /\ listing.query.hasCollectionDate = "true"
  /\ Len(listing.bookings) = 2
  /\ \E id \in Present :
       bookings[id].collectionDate # NULL /\ bookings[id].collectionTime = NULL
  /\ \E p \in PlacedBefore :
       /\ StrictlyBefore(CollectionKey(p[1]), CollectionKey(p[2]))
       /\ StrictlyBefore(EffectiveKey(p[2]), EffectiveKey(p[1]))

\* A booking has a whole session slot or a whole special-request slot.
HasSlot(row) ==
  \/ row.sessionDate # NULL /\ row.sessionTime # NULL
  \/ row.specialRequestDate # NULL /\ row.specialRequestTime # NULL

\* C19: after any sequence of create, update and allocate requests, every
\* booking whose status is not TBC has a whole session slot or a whole
\* special-request slot.
C19_SlotPresent ==
  \A id \in Present : bookings[id].status # "TBC" => HasSlot(bookings[id])

\* The caller u makes a request that names booking id: an update, a delete, an
\* allocate-studio-number or a consent-signature request.  The last two
\* handlers do not read req.user: a request by any caller is the same step.
RequestBy(u, id) ==
  \/ \E body \in UpdateBodies : UpdateBooking(u, id, body)
  \/ DeleteBooking(u, id)
  \/ AllocateStudioNumber(id)
  \/ \E fs \in FileAnswers : SaveConsentFormSignature(id, TRUE, fs[1], fs[2])

\* C20: a request on a booking by a caller who is neither ADMIN,
\* CUSTOMER_SERVICE, STUDIO or SALES nor the creator of the booking leaves the
\* booking in the table and unchanged.
C20_OnlyPermitted ==
  [][\A u \in Users, id \in BookingIds :
       ( /\ id \in Present
         /\ ~MayChange(u, bookings[id])
         /\ RequestBy(u, id) )
       => ( /\ id \in DOMAIN bookings'
            /\ bookings'[id] = bookings[id] )]_vars

\* A string of exactly 11 digits and nothing else.
ElevenDigits(str) ==
  Len(str) = 11 /\ \A i \in 1 .. Len(str) : str[i] \in DigitChars

\* The digits of a string, in their order.
RECURSIVE DigitsOf(_)
DigitsOf(str) ==
  IF str = << >> THEN << >>
  ELSE IF Head(str) \in DigitChars THEN << Head(str) >> \o DigitsOf(Tail(str))
  ELSE DigitsOf(Tail(str))

\* A create request with this body was answered.
Creates(body) == \E u \in Creators : CreateBooking(u, body)

\* An update request of booking id with this body was answered.
Updates(id, body) == \E u \in Creators : UpdateBooking(u, id, body)

C22_PageAtLeastOne ==
  Answered =>
    /\ listing.page >= 1
    /\ listing.query.page = NaN => listing.page = 1
    /\ listing.query.limit = NaN => listing.limit = 20
    /\ [i \in 1 .. Len(listing.bookings) |-> listing.bookings[i].id] =
         SubSeq(Sort(FindMany(bookings, Where(listing.user, listing.query)),
                     bookings, listing.query),
                (listing.page - 1) * listing.limit + 1,
                IF listing.page * listing.limit < listing.total
                THEN listing.page * listing.limit ELSE listing.total)

\* A consent-signature request with a signature, on a booking that exists,
\* whose file write fails.
WriteFailed(id) ==
  \E unlinkFails, updateFails \in BOOLEAN :
    ConsentHandler(id, TRUE, unlinkFails, TRUE, updateFails)

\* C23: a consent-signature request whose file write fails is answered with a
\* 500-class code and leaves the booking record as it was, signaturePath and
\* consentFormSigned included.
C23_WriteFailure ==
  [][\A id \in Present :
       WriteFailed(id) =>
         /\ \A updateFails \in BOOLEAN : ConsentOutcome(TRUE, updateFails) >= 500
         /\ ConsentCode(id, TRUE, TRUE) >= 500
         /\ bookings' = bookings]_vars

\* A signed booking whose record names a file that is gone: the write of a
\* second signature failed after the first file was deleted, and the record
\* still holds the first path.
C23_Witness ==
  \E id \in Present :
    /\ bookings[id].consentFormSigned
    /\ bookings[id].signaturePath = 1
    /\ files = {}
    /\ nextFile = 2

\* C29: a signaturePath that is not null names a file of the content store.
C29_SignatureFileExists ==
  \A id \in Present :
    bookings[id].signaturePath # NoNumber => bookings[id].signaturePath \in files

\* C24: a list request is answered with every booking it selects, also those
\* whose locationId or salesPersonId names a row that does not exist; such a
\* booking has location, or salesPerson, null, and a reference that resolves
\* gives the row it names.
C24_BrokenReference ==
  Answered =>
    /\ ReturnedIds = Matching(bookings, Where(listing.user, listing.query))
    /\ \A i \in 1 .. Len(listing.bookings) :
         LET b == listing.bookings[i]
         IN /\ b.row = bookings[b.id]
            /\ b.location =
                 IF b.row.locationId \in locations THEN b.row.locationId ELSE NULL
            /\ b.salesPerson =
                 IF b.row.salesPersonId \in UserTable THEN b.row.salesPersonId
                 ELSE NULL

\* An answer with a booking of the deleted location locB, whose location is
\* null, a booking of the deleted sales person, whose salesPerson is null,
\* and a booking whose location resolves.
C24_Witness ==
  /\ Answered
  /\ "locB" \notin locations
  /\ \E i, j, k \in 1 .. Len(listing.bookings) :
       /\ listing.bookings[i].row.locationId = "locB"
       /\ listing.bookings[i].location = NULL
       /\ listing.bookings[j].row.salesPersonId = DeletedUser
       /\ listing.bookings[j].salesPerson = NULL
       /\ listing.bookings[k].location = "locA"

\* The ids of the bookings of the answer, in their order.
AnsweredIds == [i \in 1 .. Len(listing.bookings) |-> listing.bookings[i].id]

\* C25: the bookings of an answer are in the order of the sorted, sliced ids,
\* in whatever order the store returned the rows of the page fetch.
C25_SortedOrderKept ==
  Answered =>
    AnsweredIds =
      Paginate(Sort(FindMany(bookings, Where(listing.user, listing.query)),
                    bookings, listing.query),
               listing.query)

\* An answer of three bookings whose order is neither the ids ascending nor
\* the ids descending: one of the six orders of the page fetch gave it as it
\* is, the five others did not.
C25_Witness ==
  /\ Answered
  /\ AnsweredIds = << 2, 3, 1 >>

\* C26: generateLocationCode gives "MOM" for "Mall of Multan", "GTC" for
\* "Garden Town Cantt Multan", "CC" for "City Center" and "SM" for "Shopping
\* Mall"; the code of every name that is not blank has 1 to 3 characters and
\* is the same on every call.
C26_DocumentedCodes ==
  /\ GenerateLocationCode(MallOfMultan) = << "M", "O", "M" >>
  /\ GenerateLocationCode(GardenTownCanttMultan) = << "G", "T", "C" >>
  /\ GenerateLocationCode(CityCenter) = << "C", "C" >>
  /\ GenerateLocationCode(ShoppingMall) = << "S", "M" >>
  /\ coded # NoLocationRow =>
       /\ Len(coded.code) \in 1 .. 3
       /\ coded.code = GenerateLocationCode(coded.name)

\* C27: every booking of an answer has, in the row that is returned, the
\* status the request filters by, also when an update of the status of that
\* booking runs between the sort query and the page fetch of the request.
C27_StatusFilterHolds ==
  (Answered /\ listing.query.status # UNDEFINED) =>
    \A row \in Returned : row.status = ToUpperCase(listing.query.status)

\* The sum of the seven status counts of an answer.
SummarySum ==
  listing.summary["CONFIRMED"] + listing.summary["BOOKED"]
    + listing.summary["TBC"] + listing.summary["CANCELLED"]
    + listing.summary["NO_ANSWER"] + listing.summary["WLMK"]
    + listing.summary["VIDEO_CALL"]

\* C28: the total of the summary of an answer is the sum of its seven status
\* counts, also when create or delete requests run between the count query
\* and the status query of the request.
C28_TotalIsSum == Answered => listing.total = SummarySum

\* The bookings of a location that hold a studio number: with no booking
\* deleted or moved, one for each allocate request at the location that
\* succeeded.
AllocatedAt(loc) ==
  {id \in Present :
     bookings[id].locationId = loc /\ bookings[id].studioNumber # NoNumber}

\* C30: with requests run one after the other, no booking deleted and no
\* locationId changed, the studio numbers at a location after k allocate
\* requests that succeeded there are 1 to k, and the k-th of them gave the
\* number k.
C30_OneToK ==
  /\ [](\A loc \in LocationIds : UsedAt(loc) = 1 .. Cardinality(AllocatedAt(loc)))
  /\ [][\A id \in BookingIds :
          Allocates(id) =>
            /\ out' = Response(id, 200)
            /\ bookings'[id].studioNumber =
                 Cardinality(AllocatedAt(bookings[id].locationId)) + 1]_vars

\* Three allocate requests succeeded, two at locA and one at locB: locA holds
\* the numbers 1 and 2, and locB the number 1.
C30_Witness ==
  /\ Cardinality(AllocatedAt("locA")) = 2
  /\ UsedAt("locA") = {1, 2}
  /\ UsedAt("locB") = {1}

=============================================================================
